---- MODULE Spec2Model ----
(***************************************************************************)
(* The AWS S3 blob storage provider of the cloud resource operator:        *)
(* CreateStorage and DeleteStorage (pkg/providers/aws/                     *)
(* provider_blobstorage.go) run by reconciliation invocations against one  *)
(* BlobStorage request, the API server that persists the request and the   *)
(* end-user CredentialsRequest, and the remote S3 account.                 *)
(***************************************************************************)
EXTENDS Naturals, Sequences, FiniteSets, TLC

\* ------------------------------------------------------------------ bounds
\* attempts of wait.PollImmediate(5s, 5min) around ListBuckets
MaxListAttempts == 2
\* attempts of the WaitUntilBucketNotExists waiter around HeadBucket
MaxWaitAttempts == 2
\* distinct credential identities; a new identity differs from the one before it
NumIdentities == 2

\* reconciliation invocations that may run at the same time
Procs == {"r1", "r2"}

\* --------------------------------------------------------------- constants
DefaultFinalizer == "finalizers.aws.cloud-resources-operator.integreatly.org"
DefaultRegion == "aws-default-region"
OtherFinalizer == "foregroundDeletion"

\* the BlobStorage request being reconciled
Namespace == "ns1"
Name == "mydb"

NoBucket == "<nil>"
CustomBucket == "custom-bucket"
ForeignBucket == "someone-elses-bucket"

\* contents of the strategy config map entry for the request's tier:
\* Region, and the RawStrategy JSON (a CreateBucketInput; Valid = it parses)
Strategies ==
    { [Region |-> "", Bucket |-> NoBucket, Valid |-> TRUE],
      [Region |-> "eu-west-1", Bucket |-> CustomBucket, Valid |-> TRUE],
      [Region |-> "", Bucket |-> NoBucket, Valid |-> FALSE] }

VARIABLES
    persisted,   \* the request as stored by the API server: finalizers, deletionTimestamp
    strategy,    \* the strategy store entry read by ReadBlobStorageStrategy
    buckets,     \* remote S3: bucket name -> "absent" | "present" | "deleting"
    credReq,     \* end-user CredentialsRequest: 0 = absent, n > 0 = identity of its credentials
    minted,      \* the identity issued last (0 = none yet)
    healthy,     \* TRUE once the external collaborators answer every call successfully
    lastCreate,  \* history: instance returned by the Create that created the bucket, if still intact
    lastDelete,  \* history: a Delete returned success and nothing was created since
    solo,        \* history: the invocation that runs alone, right after such a Create or Delete
    proc,        \* per invocation: position and locals of CreateStorage / DeleteStorage
    lookup       \* the last call of a provider or config manager function: its input and output

vars == <<persisted, strategy, buckets, credReq, minted, healthy, lastCreate, lastDelete, solo, proc,
          lookup>>

NoInst == [BucketName |-> NoBucket, CredentialKeyID |-> 0, CredentialSecretKey |-> 0]
NoResult == [status |-> "none", err |-> "", inst |-> NoInst]

\* the nil error
NoError == [isErr |-> FALSE, isAWSErr |-> FALSE, code |-> ""]

IdleProc ==
    [pc |-> "idle", op |-> "none",
     bs |-> [finalizers |-> {}, deletionTimestamp |-> FALSE],
     bucket |-> NoBucket, region |-> "",
     endUserCreds |-> 0,
     existingBuckets |-> {},
     listed |-> FALSE,
     bucketGone |-> FALSE,
     deleteErr |-> NoError,
     attempts |-> 0,
     result |-> NoResult,
     ctxCancelled |-> FALSE,
     calls |-> {}]

NoSolo == [who |-> "none", after |-> "none"]

NoLookup == [fn |-> "none", input |-> <<>>, output |-> <<>>]

BucketNames == {Namespace \o "-" \o Name, CustomBucket, ForeignBucket}

\* ----------------------------------------------------------------- helpers
\* resources.AddFinalizer / resources.RemoveFinalizer on the object's metadata
AddFinalizer(fs, f) == fs \cup {f}

RemoveFinalizer(fs, f) == fs \ {f}

\* fmt.Sprintf("%s-%s", bs.Namespace, bs.Name) when the payload names no bucket
BucketNameAlwaysDefault(b, ns, n) == ns \o "-" \o n

BucketNameOrDefault(b, ns, n) == IF b = NoBucket THEN ns \o "-" \o n ELSE b

\* getS3BucketConfig: region default, then the payload decoded as CreateBucketInput
RegionAlwaysDefault(r) == DefaultRegion

RegionOrDefault(r) == IF r = "" THEN DefaultRegion ELSE r

getS3BucketConfig(s) ==
    IF s.Valid
    THEN [err |-> "", Region |-> RegionOrDefault(s.Region), Bucket |-> s.Bucket]
    ELSE [err |-> "failed to unmarshal aws s3 configuration",
          Region |-> RegionOrDefault(s.Region), Bucket |-> NoBucket]

\* outcomes of a call to an external collaborator that takes the caller's context
CtxResponses(p) ==
    IF proc[p].ctxCancelled THEN {"error"}
    ELSE IF healthy THEN {"ok"} ELSE {"ok", "error"}

\* outcomes of a call to the S3 client issued without a context
Responses == IF healthy THEN {"ok"} ELSE {"ok", "error"}

\* history: the calls to external collaborators the invocation has issued
Call(p, name) == proc[p].calls \cup {name}

Running(p) == proc[p].pc \notin {"idle", "done"}

\* the names ListBuckets reports
Listed == {b \in BucketNames : buckets[b] # "absent"}

\* ------------------------------------------------------------ bookkeeping
Result(status, err, inst) == [status |-> status, err |-> err, inst |-> inst]

\* the invocation returns: the caller holds the result and the request object;
\* what the invocation had found out and the calls it issued are kept as history
Return(r, status, err, inst) ==
    [r EXCEPT !.pc = "done",
              !.result = Result(status, err, inst),
              !.region = "", !.endUserCreds = 0, !.attempts = 0,
              !.ctxCancelled = FALSE]

Fail(r, err) == Return(r, "error", err, NoInst)

\* the errors returned only when a collaborator failed or the context was cancelled
FaultErrors ==
    {"failed to add finalizer", "failed to read aws strategy config",
     "failed to reconcile s3 end-user credentials",
     "failed to reconcile aws provider credentials",
     "timed out waiting to list s3 buckets", "failed to create s3 bucket",
     "failed to delete s3 bucket", "failed to delete credential request",
     "failed to update instance"}

\* invocation p moves to r; undo = "create" when the step removed something a
\* Create made, "delete" when it made something a Delete removes, else "none"
Advance(p, r, undo) ==
    /\ proc' = [proc EXCEPT ![p] = r]
    /\ solo' = IF solo.after = undo THEN NoSolo ELSE solo
    /\ lastDelete' = IF undo = "delete" THEN FALSE
                     ELSE IF r.pc = "done" /\ r.op = "delete" /\ r.result.status = "ok"
                     THEN TRUE
                     ELSE lastDelete

\* ------------------------------------------------------------------- Init
Init ==
    /\ persisted = [finalizers |-> {OtherFinalizer}, deletionTimestamp |-> FALSE]
    /\ strategy \in Strategies
    /\ buckets = [b \in BucketNames |-> IF b = ForeignBucket THEN "present" ELSE "absent"]
    /\ credReq = 0
    /\ minted = 0
    /\ healthy = FALSE
    /\ lastCreate = NoInst
    /\ lastDelete = FALSE
    /\ solo = NoSolo
    /\ proc = [p \in Procs |-> IdleProc]
    /\ lookup = NoLookup

\* ------------------------------------------------ the reconciliation trigger
\* the controller fetches the request and calls CreateStorage or DeleteStorage with it
\* (DeleteStorage never reads the deletion timestamp, so its copy does not keep it)
Invoke(p, o) ==
    /\ proc[p].pc = "idle"
    /\ LET alone == \A q \in Procs \ {p} : ~Running(q)
           r == [IdleProc EXCEPT
                   !.pc = IF o = "create" THEN "c_finalizer" ELSE "d_config",
                   !.op = o,
                   !.bs = [persisted EXCEPT !.deletionTimestamp = @ /\ o = "create"]]
       IN /\ proc' = [proc EXCEPT ![p] = r]
          /\ solo' = IF ~alone THEN NoSolo
                     ELSE IF lastCreate # NoInst THEN [who |-> p, after |-> "create"]
                     ELSE IF lastDelete THEN [who |-> p, after |-> "delete"]
                     ELSE NoSolo
    /\ UNCHANGED <<persisted, strategy, buckets, credReq, minted, healthy, lastCreate, lastDelete, lookup>>

\* the caller drops the returned value; the invocation slot is free again
Finish(p) ==
    /\ proc[p].pc = "done"
    /\ proc' = [proc EXCEPT ![p] = IdleProc]
    /\ solo' = IF solo.who = p THEN NoSolo ELSE solo
    /\ UNCHANGED <<persisted, strategy, buckets, credReq, minted, healthy, lastCreate, lastDelete, lookup>>

\* the caller's context is cancelled, or its deadline passes, during a poll
\* (before a call that takes the context it is the same as that call failing)
CancelContext(p) ==
    /\ proc[p].pc \in {"c_list", "d_wait"}
    /\ ~healthy
    /\ ~proc[p].ctxCancelled
    /\ proc' = [proc EXCEPT ![p].ctxCancelled = TRUE]
    /\ UNCHANGED <<persisted, strategy, buckets, credReq, minted, healthy, lastCreate, lastDelete, solo, lookup>>

\* the user deletes the request: the API server sets its deletion timestamp
MarkForDeletion ==
    /\ ~persisted.deletionTimestamp
    /\ persisted' = [persisted EXCEPT !.deletionTimestamp = TRUE]
    /\ UNCHANGED <<strategy, buckets, credReq, minted, healthy, lastCreate, lastDelete, solo, proc, lookup>>

\* S3 finishes removing a bucket whose deletion it accepted
RemoteCompleteDelete(b) ==
    /\ buckets[b] = "deleting"
    /\ buckets' = [buckets EXCEPT ![b] = "absent"]
    /\ UNCHANGED <<persisted, strategy, credReq, minted, healthy, lastCreate, lastDelete, solo, proc, lookup>>

\* from here on every collaborator answers successfully and no context is cancelled
Heal ==
    /\ ~healthy
    /\ healthy' = TRUE
    /\ UNCHANGED <<persisted, strategy, buckets, credReq, minted, lastCreate, lastDelete, solo, proc, lookup>>

\* ---------------------------------------------------------- CreateStorage
\* lines 84-91: the provider-specific finalizer
NeedsFinalizerNever(b) == FALSE

NeedsFinalizer(b) == ~b.deletionTimestamp

CreateAddFinalizer(p) ==
    /\ proc[p].pc = "c_finalizer"
    /\ IF NeedsFinalizer(proc[p].bs)
       THEN \E resp \in CtxResponses(p) :
              LET fs == AddFinalizer(proc[p].bs.finalizers, DefaultFinalizer)
                  r  == [proc[p] EXCEPT !.bs.finalizers = fs,
                                        !.calls = Call(p, "Update")]
              IN IF resp = "ok"
                 THEN /\ persisted' = [persisted EXCEPT !.finalizers = fs]
                      /\ Advance(p, [r EXCEPT !.pc = "c_config"],
                                 IF fs # persisted.finalizers THEN "delete" ELSE "none")
                 ELSE /\ UNCHANGED persisted
                      /\ Advance(p, Fail(r,
                                         "failed to add finalizer"), "none")
       ELSE /\ UNCHANGED persisted
            /\ Advance(p, [proc[p] EXCEPT !.pc = "c_config"], "none")
    /\ UNCHANGED <<strategy, buckets, credReq, minted, healthy, lastCreate, lookup>>

\* lines 93-101 (and 175-183): getS3BucketConfig and the default bucket name
ResolveConfig(p, next) ==
    \E resp \in CtxResponses(p) :
       LET cfg == getS3BucketConfig(strategy)
           r   == [proc[p] EXCEPT !.calls = Call(p, "ReadBlobStorageStrategy")]
       IN IF resp = "error"
          THEN Advance(p, Fail(r,
                               "failed to read aws strategy config"), "none")
          ELSE IF cfg.err # ""
          THEN Advance(p, Fail(r, cfg.err), "none")
          ELSE Advance(p, [r EXCEPT !.pc = next,
                                    !.region = cfg.Region,
                                    !.bucket = BucketNameOrDefault(cfg.Bucket, Namespace, Name)],
                       "none")

CreateConfig(p) ==
    /\ proc[p].pc = "c_config"
    /\ ResolveConfig(p, "c_endUserCreds")
    /\ UNCHANGED <<persisted, strategy, buckets, credReq, minted, healthy, lastCreate, lookup>>

\* the credential manager converges to one identity per credentials request:
\* it mints an identity only when there is no request yet (cr = 0)
ReoncileBucketOwnerCredentials(cr, last) ==
    IF cr = 0 THEN (last % NumIdentities) + 1 ELSE cr

\* lines 103-109: the end-user credentials for the bucket
CreateEndUserCredsSkipped(p) ==
    /\ proc[p].pc = "c_endUserCreds"
    /\ Advance(p, [proc[p] EXCEPT !.pc = "c_list"], "none")
    /\ UNCHANGED <<persisted, strategy, buckets, credReq, minted, healthy, lastCreate, lookup>>

CreateEndUserCreds(p) ==
    /\ proc[p].pc = "c_endUserCreds"
    /\ \E resp \in CtxResponses(p) :
         LET r == [proc[p] EXCEPT !.calls = Call(p, "ReoncileBucketOwnerCredentials")]
         IN IF resp = "error"
            THEN /\ UNCHANGED <<credReq, minted>>
                 /\ Advance(p, Fail(r,
                                    "failed to reconcile s3 end-user credentials"), "none")
            ELSE LET id == ReoncileBucketOwnerCredentials(credReq, minted)
                 IN /\ credReq' = id
                    /\ minted' = id
                    /\ Advance(p, [r EXCEPT !.pc = "c_providerCreds", !.endUserCreds = id],
                               IF credReq = 0 THEN "delete" ELSE "none")
    /\ UNCHANGED <<persisted, strategy, buckets, healthy, lastCreate, lookup>>

\* lines 111-116 (and 185-190): the provider credentials of the namespace
ReconcileProvider(p, next) ==
    \E resp \in CtxResponses(p) :
       LET r == [proc[p] EXCEPT !.calls = Call(p, "ReconcileProviderCredentials")]
       IN IF resp = "error"
          THEN Advance(p, Fail(r,
                               "failed to reconcile aws provider credentials"), "none")
          ELSE Advance(p, [r EXCEPT !.pc = next], "none")

CreateProviderCreds(p) ==
    /\ proc[p].pc = "c_providerCreds"
    /\ ReconcileProvider(p, "c_list")
    /\ UNCHANGED <<persisted, strategy, buckets, credReq, minted, healthy, lastCreate, lookup>>

\* lines 126-139: wait.PollImmediate around ListBuckets; no context is passed
PollExhausted(n) == n >= MaxListAttempts

\* lines 137-139: the poll's timeout is returned
ListNextIgnoringTimeout(r, timedOut) ==
    IF timedOut THEN [r EXCEPT !.pc = "c_createBucket"] ELSE r

ListTimeout == "timed out waiting to list s3 buckets"

ListNext(r, timedOut) ==
    IF timedOut THEN Fail(r, ListTimeout) ELSE r

\* lines 152-158: the loop looking for the target name among the listed buckets
FoundBucketNever(existing, name) == FALSE

FoundBucket(existing, name) == name \in existing

\* lines 141-148: the instance returned on success
Instance(r) ==
    [BucketName |-> r.bucket,
     CredentialKeyID |-> r.endUserCreds,
     CredentialSecretKey |-> r.endUserCreds]

CreateListBuckets(p) ==
    /\ proc[p].pc = "c_list"
    /\ \E resp \in Responses :
         LET r == [proc[p] EXCEPT !.calls = Call(p, "ListBuckets")]
         IN IF resp = "ok"
            THEN LET r2 == [r EXCEPT !.existingBuckets = Listed, !.listed = TRUE,
                                     !.attempts = 0]
                 IN IF FoundBucket(r2.existingBuckets, r2.bucket)
                    THEN Advance(p, Return(r2, "ok", "", Instance(r2)), "none")
                    ELSE Advance(p, [r2 EXCEPT !.pc = "c_createBucket"], "none")
            ELSE LET r2 == [r EXCEPT !.attempts = @ + 1]
                 IN Advance(p, ListNext(r2, PollExhausted(r2.attempts)), "none")
    /\ UNCHANGED <<persisted, strategy, buckets, credReq, minted, healthy, lastCreate, lookup>>

\* lines 163-169: CreateBucket; S3 answers a name that is taken with an error
\* (BucketAlreadyOwnedByYou) or, in its legacy region, with success
CreateBucketResponses(state) ==
    IF state = "present" THEN {"ok", "BucketAlreadyOwnedByYou"}
    ELSE IF state = "deleting" THEN {"OperationAborted"}
    ELSE Responses

CreateBucket(p) ==
    /\ proc[p].pc = "c_createBucket"
    /\ \E resp \in CreateBucketResponses(buckets[proc[p].bucket]) :
         LET r == [proc[p] EXCEPT !.calls = Call(p, "CreateBucket")]
         IN IF resp = "ok"
            THEN /\ buckets' = [buckets EXCEPT ![r.bucket] = "present"]
                 /\ lastCreate' = IF buckets[r.bucket] = "absent" /\ credReq = r.endUserCreds
                                  THEN Instance(r)
                                  ELSE lastCreate
                 /\ Advance(p, Return(r, "ok", "", Instance(r)), "delete")
            ELSE /\ UNCHANGED <<buckets, lastCreate>>
                 /\ Advance(p, Fail(r, IF resp = "error" THEN "failed to create s3 bucket"
                                            ELSE resp), "none")
    /\ UNCHANGED <<persisted, strategy, credReq, minted, healthy, lookup>>

\* ---------------------------------------------------------- DeleteStorage
DeleteConfig(p) ==
    /\ proc[p].pc = "d_config"
    /\ ResolveConfig(p, "d_providerCreds")
    /\ UNCHANGED <<persisted, strategy, buckets, credReq, minted, healthy, lastCreate, lookup>>

DeleteProviderCreds(p) ==
    /\ proc[p].pc = "d_providerCreds"
    /\ ReconcileProvider(p, "d_deleteBucket")
    /\ UNCHANGED <<persisted, strategy, buckets, credReq, minted, healthy, lastCreate, lookup>>

\* lines 200-211: DeleteBucket and the classification of its error
ErrCodeNoSuchBucket == "NoSuchBucket"

DeleteBucketErrors(state) ==
    (IF state = "absent"
     THEN {[isErr |-> TRUE, isAWSErr |-> TRUE, code |-> ErrCodeNoSuchBucket]}
     ELSE {NoError})
    \cup (IF healthy THEN {}
          ELSE {[isErr |-> TRUE, isAWSErr |-> TRUE, code |-> "AccessDenied"],
                [isErr |-> TRUE, isAWSErr |-> FALSE, code |-> "RequestError"]})

DeleteErrorSurfacedAlways(e) == e.isErr

DeleteErrorSurfaced(e) ==
    \/ e.isErr /\ ~e.isAWSErr
    \/ e.isErr /\ e.isAWSErr /\ e.code # ErrCodeNoSuchBucket

DeleteBucket(p) ==
    /\ proc[p].pc = "d_deleteBucket"
    /\ \E e \in DeleteBucketErrors(buckets[proc[p].bucket]) :
         LET r == [proc[p] EXCEPT !.calls = Call(p, "DeleteBucket"), !.deleteErr = e]
             accepted == ~e.isErr
         IN /\ buckets' = IF accepted THEN [buckets EXCEPT ![r.bucket] = "deleting"]
                          ELSE buckets
            /\ lastCreate' = IF accepted THEN NoInst ELSE lastCreate
            /\ IF DeleteErrorSurfaced(e)
               THEN Advance(p, Fail(r, "failed to delete s3 bucket"),
                            IF accepted THEN "create" ELSE "none")
               ELSE Advance(p, [r EXCEPT !.pc = "d_wait"],
                            IF accepted THEN "create" ELSE "none")
    /\ UNCHANGED <<persisted, strategy, credReq, minted, healthy, lookup>>

\* lines 212-217: WaitUntilBucketNotExists, a bounded HeadBucket poll; no context is passed
WaitExhausted(n) == n >= MaxWaitAttempts

WaitTimeout == "failed to wait for s3 bucket deletion"

WaitNextIgnoringTimeout(r, timedOut) ==
    IF timedOut THEN [r EXCEPT !.pc = "d_deleteCredReq"] ELSE r

WaitNext(r, timedOut) ==
    IF timedOut THEN Fail(r, WaitTimeout) ELSE r

\* line 219: what follows the confirmed absence of the bucket
AfterWaitFinalizer == "d_finalizer"

AfterWait == "d_deleteCredReq"

DeleteWait(p) ==
    /\ proc[p].pc = "d_wait"
    /\ \E resp \in Responses :
         LET gone == resp = "ok" /\ buckets[proc[p].bucket] = "absent"
             r == [proc[p] EXCEPT !.calls = Call(p, "HeadBucket")]
         IN IF gone
            THEN Advance(p, [r EXCEPT !.pc = AfterWait, !.bucketGone = TRUE,
                                      !.attempts = 0], "none")
            ELSE LET r2 == [r EXCEPT !.attempts = @ + 1]
                 IN Advance(p, WaitNext(r2, WaitExhausted(r2.attempts)), "none")
    /\ UNCHANGED <<persisted, strategy, buckets, credReq, minted, healthy, lastCreate, lookup>>

\* lines 219-230: Client.Delete of the end-user CredentialsRequest; the API
\* server answers NotFound when there is none, and any error is returned
DeleteCredentialRequest(p) ==
    /\ proc[p].pc = "d_deleteCredReq"
    /\ \E resp \in CtxResponses(p) :
         LET out == IF resp = "error" THEN "error"
                    ELSE IF credReq = 0 THEN "NotFound" ELSE "ok"
             r == [proc[p] EXCEPT !.calls = Call(p, "Delete")]
         IN IF out = "ok"
            THEN /\ credReq' = 0
                 /\ lastCreate' = NoInst
                 /\ Advance(p, [r EXCEPT !.pc = "d_finalizer"], "create")
            ELSE /\ UNCHANGED <<credReq, lastCreate>>
                 /\ Advance(p, Fail(r, IF out = "NotFound"
                                    THEN "failed to delete credential request: NotFound"
                                    ELSE "failed to delete credential request"), "none")
    /\ UNCHANGED <<persisted, strategy, buckets, minted, healthy, lookup>>

\* lines 232-240: RemoveFinalizer on the in-memory request, then Update
DeleteRemoveFinalizer(p) ==
    /\ proc[p].pc = "d_finalizer"
    /\ \E resp \in CtxResponses(p) :
         LET fs == RemoveFinalizer(proc[p].bs.finalizers, DefaultFinalizer)
             r  == [proc[p] EXCEPT !.bs.finalizers = fs,
                                   !.calls = Call(p, "Update")]
         IN IF resp = "ok"
            THEN /\ persisted' = [persisted EXCEPT !.finalizers = fs]
                 /\ Advance(p, Return(r, "ok", "", NoInst), "none")
            ELSE /\ UNCHANGED persisted
                 /\ Advance(p, Fail(r,
                                    "failed to update instance"), "none")
    /\ UNCHANGED <<strategy, buckets, credReq, minted, healthy, lastCreate, lookup>>

\* ------------------------------------------------------------ specification
Next ==
    \/ \E p \in Procs, o \in {"create", "delete"} : Invoke(p, o)
    \/ \E p \in Procs : Finish(p)
    \/ \E p \in Procs : CancelContext(p)
    \/ MarkForDeletion
    \/ \E b \in BucketNames : RemoteCompleteDelete(b)
    \/ \E p \in Procs : CreateAddFinalizer(p)
    \/ \E p \in Procs : CreateConfig(p)
    \/ \E p \in Procs : CreateEndUserCreds(p)
    \/ \E p \in Procs : CreateProviderCreds(p)
    \/ \E p \in Procs : CreateListBuckets(p)
    \/ \E p \in Procs : CreateBucket(p)
    \/ \E p \in Procs : DeleteConfig(p)
    \/ \E p \in Procs : DeleteProviderCreds(p)
    \/ \E p \in Procs : DeleteBucket(p)
    \/ \E p \in Procs : DeleteWait(p)
    \/ \E p \in Procs : DeleteCredentialRequest(p)
    \/ \E p \in Procs : DeleteRemoveFinalizer(p)

Spec == Init /\ [][Next]_vars

\* ------------------------------------------------- recovery by re-invocation
\* One reconciliation worker, dispatching as the controller does (DeleteStorage
\* once the request has a deletion timestamp, CreateStorage before), collaborators
\* that fail for a while and then answer every call, and a trigger that keeps
\* re-invoking the workflow.
Worker == "r1"

Reconcile == Invoke(Worker, IF persisted.deletionTimestamp THEN "delete" ELSE "create")

WorkflowStep ==
    \/ CreateAddFinalizer(Worker)
    \/ CreateConfig(Worker)
    \/ CreateEndUserCreds(Worker)
    \/ CreateProviderCreds(Worker)
    \/ CreateListBuckets(Worker)
    \/ CreateBucket(Worker)
    \/ DeleteConfig(Worker)
    \/ DeleteProviderCreds(Worker)
    \/ DeleteBucket(Worker)
    \/ DeleteWait(Worker)
    \/ DeleteCredentialRequest(Worker)
    \/ DeleteRemoveFinalizer(Worker)

RemoteProgress == \E b \in BucketNames : RemoteCompleteDelete(b)

RetryNext ==
    \/ Reconcile
    \/ Finish(Worker)
    \/ CancelContext(Worker)
    \/ MarkForDeletion
    \/ RemoteProgress
    \/ Heal
    \/ WorkflowStep

RetrySpec ==
    /\ Init
    /\ [][RetryNext]_vars
    /\ WF_vars(Reconcile)
    /\ WF_vars(Finish(Worker))
    /\ WF_vars(WorkflowStep)
    /\ WF_vars(RemoteProgress)
    /\ WF_vars(Heal)

\* ------------------------------------- provider and config manager functions
\* providers.AWSDeploymentStrategy, the name of the AWS providers
AWSDeploymentStrategy == "aws"

\* the concrete providers: aws.BlobStorageProvider and azure.PostgresProvider
Providers == {"aws.BlobStorageProvider", "azure.PostgresProvider"}

\* the strategy names a mapping may hold, and the names the providers go by
StrategyNames == {"aws", "openshift", "azure", "Azure Postgres Provider"}

GetName(prov) ==
    IF prov = "aws.BlobStorageProvider" THEN AWSDeploymentStrategy
    ELSE "Azure Postgres Provider"

SupportsStrategy(prov, s) ==
    IF prov = "aws.BlobStorageProvider" THEN s = AWSDeploymentStrategy
    ELSE s = "azure"

\* a JSON text: "object" with its members, "malformed", or "empty" (the empty
\* string, which is what a key missing from ConfigMap.Data reads as)
DocKeys == {"blobstorage", "smtpcredentials", "smtpCredentials", "redis", "postgres"}
DocValues == {"aws", "openshift"}

Object(fs) == [kind |-> "object", fields |-> fs]
EmptyText == [kind |-> "empty", fields |-> <<>>]
Malformed == [kind |-> "malformed", fields |-> <<>>]

\* encoding/json matches an object key to a struct field's name ignoring case
FoldExact(k) == k

Fold(k) == IF k = "smtpCredentials" THEN "smtpcredentials" ELSE k

\* objects with at most one member per struct field (with two, the later one
\* in the text wins)
Objects ==
    {Object(f) : f \in UNION {[ks -> DocValues] : ks \in
                                 {K \in SUBSET DocKeys :
                                    \A j, k \in K : Fold(j) = Fold(k) => j = k}}}

Docs == Objects \cup {EmptyText, Malformed}

\* the value json.Unmarshal stores in the field tagged tag: the member's value,
\* or the zero value when the object has no such member
Field(doc, tag) ==
    LET ks == {k \in DOMAIN doc.fields : Fold(k) = Fold(tag)}
    IN IF ks = {} THEN "" ELSE doc.fields[CHOOSE k \in ks : TRUE]

\* json.Unmarshal into a DeploymentStrategyMapping (struct tags of lines 23-28)
Unmarshal(doc) ==
    IF doc.kind # "object"
    THEN [err |-> "failed to unmarshal config for deployment type", dsm |-> <<>>]
    ELSE [err |-> "",
          dsm |-> [BlobStorage     |-> Field(doc, "blobstorage"),
                   SMTPCredentials |-> Field(doc, "smtpCredentials"),
                   Redis           |-> Field(doc, "redis"),
                   Postgres        |-> Field(doc, "postgres")]]

DeploymentTypes == {"managed", "workshop"}

\* lines 70-81: the seeded config map
buildDefaultConfigMap ==
    [t \in DeploymentTypes |->
        IF t = "managed"
        THEN Object([k \in {"blobstorage", "smtpcredentials", "redis", "postgres"} |-> "aws"])
        ELSE Object([k \in {"blobstorage", "smtpcredentials", "redis", "postgres"} |->
                        IF k \in {"redis", "postgres"} THEN "openshift" ELSE "aws"])]

\* the Strategy Store: no config map, an unreachable API server, or a config
\* map with its Data (deployment type -> JSON text)
NoConfigMap == [state |-> "absent", Data |-> <<>>]
Unreachable == [state |-> "unreachable", Data |-> <<>>]
ConfigMap(d) == [state |-> "present", Data |-> d]

Stores ==
    {NoConfigMap, Unreachable, ConfigMap(<<>>)}
        \cup {ConfigMap([t \in {"managed"} |-> d]) : d \in Docs}

\* resources.GetConfigMapOrDefault: the stored config map, the default when
\* there is none, an error when the read fails
GetConfigMapOrDefault(store, def) ==
    IF store.state = "unreachable" THEN [err |-> "error", Data |-> <<>>]
    ELSE IF store.state = "absent" THEN [err |-> "", Data |-> def]
    ELSE [err |-> "", Data |-> store.Data]

\* cm.Data[t] of a Go map: the empty string when t is not a key
DataAt(data, t) == IF t \in DOMAIN data THEN data[t] ELSE EmptyText

\* lines 58-68
GetStrategyMappingForDeploymentType(store, t) ==
    LET cm == GetConfigMapOrDefault(store, buildDefaultConfigMap)
    IN IF cm.err # ""
       THEN [err |-> "failed to read provider config from configmap", dsm |-> <<>>]
       ELSE Unmarshal(DataAt(cm.Data, t))

\* the Postgres requests CreatePostgres is handed
PostgresRequests == [finalizers : {{}, {OtherFinalizer}}, deletionTimestamp : BOOLEAN]

\* part_000 lines 42-60: Get of the azure-creds secret, then a fixed instance;
\* the request is neither changed nor updated
CreatePostgres(ps, getSecret) ==
    IF getSecret = "error"
    THEN [inst |-> "nil", status |-> "error", err |-> "error", ps |-> ps, updates |-> 0]
    ELSE [inst |-> "test", status |-> "completed", err |-> "", ps |-> ps, updates |-> 0]

Lookup(fn, input, output) == [fn |-> fn, input |-> input, output |-> output]

CallGetName ==
    /\ \E prov \in Providers : lookup' = Lookup("GetName", <<prov>>, GetName(prov))
    /\ UNCHANGED <<persisted, strategy, buckets, credReq, minted, healthy, lastCreate, lastDelete, solo, proc>>

CallSupportsStrategy ==
    /\ \E prov \in Providers, s \in StrategyNames :
          lookup' = Lookup("SupportsStrategy", <<prov, s>>, SupportsStrategy(prov, s))
    /\ UNCHANGED <<persisted, strategy, buckets, credReq, minted, healthy, lastCreate, lastDelete, solo, proc>>

CallGetStrategyMapping ==
    /\ \E store \in Stores, t \in DeploymentTypes :
          lookup' = Lookup("GetStrategyMappingForDeploymentType", <<store, t>>,
                           GetStrategyMappingForDeploymentType(store, t))
    /\ UNCHANGED <<persisted, strategy, buckets, credReq, minted, healthy, lastCreate, lastDelete, solo, proc>>

CallCreatePostgres ==
    /\ \E ps \in PostgresRequests, getSecret \in {"ok", "error"} :
          lookup' = Lookup("CreatePostgres", <<ps>>, CreatePostgres(ps, getSecret))
    /\ UNCHANGED <<persisted, strategy, buckets, credReq, minted, healthy, lastCreate, lastDelete, solo, proc>>

ProviderNext ==
    \/ CallGetName
    \/ CallSupportsStrategy
    \/ CallGetStrategyMapping
    \/ CallCreatePostgres

ProviderSpec == Init /\ [][ProviderNext]_vars

\* ------------------------------------------------------------------ claims
CredentialCalls == {"ReoncileBucketOwnerCredentials", "ReconcileProviderCredentials"}

RemoteCalls == {"ListBuckets", "CreateBucket"}

Creates == {p \in Procs : proc[p].op = "create"}

Deletes == {p \in Procs : proc[p].op = "delete"}

\* C1 as stated: in every execution of CreateStorage, once a credential has been
\* reconciled or a remote call (ListBuckets, CreateBucket) issued, the request
\* carries the finalizer marker and an Update of it was issued before.
C1_FinalizerBeforeRemoteCalls ==
    \A p \in Creates :
        proc[p].calls \cap (CredentialCalls \cup RemoteCalls) # {}
            => /\ DefaultFinalizer \in proc[p].bs.finalizers
               /\ "Update" \in proc[p].calls

\* C1 amended: the same for every CreateStorage of a request that has no
\* deletion timestamp.
C1_FinalizerBeforeRemoteCallsNoDeletion ==
    \A p \in Creates :
        /\ ~proc[p].bs.deletionTimestamp
        /\ proc[p].calls \cap (CredentialCalls \cup RemoteCalls) # {}
        => /\ DefaultFinalizer \in proc[p].bs.finalizers
           /\ "Update" \in proc[p].calls

C1_Witness ==
    \E p \in Creates :
        /\ ~proc[p].bs.deletionTimestamp
        /\ "CreateBucket" \in proc[p].calls
        /\ "Update" \in proc[p].calls
        /\ proc[p].result.status = "ok"

CleanupCalls == {"DeleteBucket", "HeadBucket", "Delete"}

\* C2, state part: in every execution of DeleteStorage the Update that removes
\* the finalizer is issued only after DeleteBucket, the successful wait for the
\* bucket's absence and the deletion of the credential request, and nothing
\* follows it but the return.
C2_UpdateAfterCleanup ==
    \A p \in Deletes :
        /\ Running(p) => "Update" \notin proc[p].calls
        /\ "Update" \in proc[p].calls
              => CleanupCalls \subseteq proc[p].calls /\ proc[p].bucketGone

\* C2, step part: the persisted request loses the finalizer only in the last
\* step of a DeleteStorage that has done all of its cleanup and returns success.
C2_RemovalStep ==
    (DefaultFinalizer \in persisted.finalizers /\ DefaultFinalizer \notin persisted'.finalizers)
        => \E p \in Deletes :
              /\ proc[p].pc = "d_finalizer"
              /\ CleanupCalls \subseteq proc[p].calls
              /\ proc[p].bucketGone
              /\ proc'[p].pc = "done"
              /\ proc'[p].result.status = "ok"

\* C2: removing the finalizer and persisting the request is the last step of
\* DeleteStorage; until the remote delete, the wait and the credential request
\* deletion have succeeded the execution leaves the persisted finalizer alone.
C2_FinalizerRemovedLast == []C2_UpdateAfterCleanup /\ [][C2_RemovalStep]_vars

C2_Witness ==
    \E p \in Deletes :
        /\ proc[p].pc = "done"
        /\ proc[p].result.status = "ok"
        /\ "Update" \in proc[p].calls
        /\ proc[p].bucketGone
        /\ DefaultFinalizer \notin persisted.finalizers
        /\ persisted.deletionTimestamp

\* C3: a CreateStorage that runs alone, right after the CreateStorage that
\* created the bucket returned, issues no CreateBucket, leaves the bucket and the
\* credential request as they were, and returns the same instance (bucket name and
\* end-user credential identifiers); it returns an error only when a collaborator
\* failed.
C3_SecondCreateIdempotent ==
    \A p \in Creates :
        (solo.who = p /\ solo.after = "create")
            => /\ "CreateBucket" \notin proc[p].calls
               /\ buckets[lastCreate.BucketName] = "present"
               /\ credReq = lastCreate.CredentialKeyID
               /\ proc[p].pc = "done"
                     => \/ /\ proc[p].result.status = "ok"
                           /\ proc[p].result.inst = lastCreate
                        \/ /\ proc[p].result.status = "error"
                           /\ proc[p].result.err \in FaultErrors

C3_Witness ==
    \E p \in Creates :
        /\ solo.who = p /\ solo.after = "create"
        /\ proc[p].pc = "done"
        /\ proc[p].result.status = "ok"
        /\ proc[p].result.inst = lastCreate
        /\ lastCreate # NoInst
        /\ "ListBuckets" \in proc[p].calls

\* C4 as stated: a DeleteStorage that runs alone, right after a DeleteStorage of
\* the same request returned success, returns success too, unless a collaborator
\* failed (the bucket is absent then, so its wait can only time out on failures).
C4_SecondDeleteSucceeds ==
    \A p \in Deletes :
        (solo.who = p /\ solo.after = "delete" /\ proc[p].pc = "done")
            => \/ proc[p].result.status = "ok"
               \/ proc[p].result.err \in FaultErrors \cup {WaitTimeout}

\* C5 as stated, for its named case: once a DeleteStorage has failed to persist
\* the finalizer removal (the credential request being deleted already), the
\* re-invocations of DeleteStorage, with the collaborators answering successfully
\* from some point on, eventually remove the finalizer marker.
C5_DeleteRetryRemovesFinalizer ==
    (\E p \in Deletes : /\ proc[p].pc = "done"
                        /\ proc[p].result.err = "failed to update instance")
        ~> (DefaultFinalizer \notin persisted.finalizers)

\* C6 as stated: no CreateStorage returns the error S3 gives for a bucket that
\* another CreateStorage of the same name created after this one had listed the
\* buckets (BucketAlreadyOwnedByYou).
C6_ConcurrentCreateNoConflict ==
    \A p \in Creates :
        proc[p].pc = "done" => proc[p].result.err # "BucketAlreadyOwnedByYou"

\* C7 as stated: while another DeleteStorage of the same request has deleted the
\* credential request and is still running, a DeleteStorage that issues its own
\* Client.Delete does not return the NotFound error.
C7_ConcurrentDeleteNoConflict ==
    [][\A p, q \in Procs :
         (/\ p # q
          /\ proc[q].op = "delete" /\ proc[q].pc = "d_finalizer"
          /\ proc[p].op = "delete" /\ proc[p].pc = "d_deleteCredReq"
          /\ proc'[p].pc = "done")
            => proc'[p].result.err # "failed to delete credential request: NotFound"]_vars

\* C8: in every execution of CreateStorage, CreateBucket is issued only after a
\* ListBuckets that succeeded and did not show the target name; a poll that used
\* up its window returns the timeout error with no CreateBucket issued; the poll
\* never runs past its window.
C8_CreateOnlyAfterSuccessfulList ==
    \A p \in Creates :
        /\ (proc[p].pc = "c_createBucket" \/ "CreateBucket" \in proc[p].calls)
              => proc[p].listed /\ proc[p].bucket \notin proc[p].existingBuckets
        /\ (proc[p].pc = "done" /\ "ListBuckets" \in proc[p].calls /\ ~proc[p].listed)
              => /\ proc[p].result.status = "error"
                 /\ proc[p].result.err = ListTimeout
                 /\ "CreateBucket" \notin proc[p].calls
        /\ proc[p].pc = "c_list" => proc[p].attempts < MaxListAttempts

C8_Witness ==
    \E p \in Creates :
        /\ proc[p].pc = "done"
        /\ proc[p].result.err = ListTimeout
        /\ "ListBuckets" \in proc[p].calls
        /\ "CreateBucket" \notin proc[p].calls

\* C9 as stated: once the caller's context is cancelled during the ListBuckets
\* poll or the wait for the bucket's absence, the next step of that invocation
\* is its return with an error.
C9_PollsAbortOnCancel ==
    [][\A p \in Procs :
         (/\ proc[p].ctxCancelled
          /\ proc[p].pc \in {"c_list", "d_wait"}
          /\ proc'[p] # proc[p])
            => proc'[p].pc = "done" /\ proc'[p].result.status = "error"]_vars

\* C10: in every execution of DeleteStorage, success is returned only after the
\* wait saw the bucket absent; a wait that used up its attempts returns an
\* error, with no Client.Delete of the credential request and no Update of the
\* request (the finalizer stays) issued by that invocation.
C10_DeleteCompleteOnlyIfAbsent ==
    \A p \in Deletes :
        /\ (proc[p].pc = "done" /\ proc[p].result.status = "ok") => proc[p].bucketGone
        /\ (proc[p].pc \in {"d_deleteCredReq", "d_finalizer"}
             \/ proc[p].calls \cap {"Delete", "Update"} # {}) => proc[p].bucketGone
        /\ (proc[p].pc = "done" /\ "HeadBucket" \in proc[p].calls /\ ~proc[p].bucketGone)
              => /\ proc[p].result.status = "error"
                 /\ proc[p].result.err = WaitTimeout
                 /\ proc[p].calls \cap {"Delete", "Update"} = {}
        /\ proc[p].pc = "d_wait" => proc[p].attempts < MaxWaitAttempts

C10_Witness ==
    \E p \in Deletes :
        /\ proc[p].pc = "done"
        /\ proc[p].result.err = WaitTimeout
        /\ "HeadBucket" \in proc[p].calls
        /\ DefaultFinalizer \in persisted.finalizers
        /\ credReq # 0

\* C11: in every execution of DeleteStorage, after a DeleteBucket that answered
\* with no error or with the vendor error NoSuchBucket the workflow goes on to
\* the wait; after any other answer (another vendor code, or an error that is
\* not a vendor error) it returns "failed to delete s3 bucket" and has issued
\* no later call.
C11_OnlyNoSuchBucketTolerated ==
    \A p \in Deletes :
        "DeleteBucket" \in proc[p].calls =>
            LET e == proc[p].deleteErr
                notFound == e.isErr /\ e.isAWSErr /\ e.code = "NoSuchBucket"
            IN IF ~e.isErr \/ notFound
               THEN /\ proc[p].pc # "d_deleteBucket"
                    /\ proc[p].result.err # "failed to delete s3 bucket"
                    /\ proc[p].pc = "done" => "HeadBucket" \in proc[p].calls
               ELSE /\ proc[p].pc = "done"
                    /\ proc[p].result.status = "error"
                    /\ proc[p].result.err = "failed to delete s3 bucket"
                    /\ proc[p].calls \cap {"HeadBucket", "Delete", "Update"} = {}

C11_Witness ==
    \E p \in Deletes :
        /\ proc[p].deleteErr.code = "NoSuchBucket"
        /\ proc[p].pc = "done"
        /\ proc[p].result.status = "ok"

\* C12: in every execution of CreateStorage, ListBuckets or CreateBucket is
\* issued only after ReoncileBucketOwnerCredentials and then
\* ReconcileProviderCredentials were called and succeeded; an invocation that
\* returns the error of either reconciliation has issued no remote call.
C12_CredentialsBeforeRemoteCalls ==
    \A p \in Creates :
        /\ (proc[p].pc \in {"c_list", "c_createBucket"} \/ proc[p].calls \cap RemoteCalls # {})
              => /\ CredentialCalls \subseteq proc[p].calls
                 /\ proc[p].result.err \notin
                       {"failed to reconcile s3 end-user credentials",
                        "failed to reconcile aws provider credentials"}
                 /\ Running(p) => proc[p].endUserCreds # 0
        /\ "ReconcileProviderCredentials" \in proc[p].calls
              => "ReoncileBucketOwnerCredentials" \in proc[p].calls
        /\ (proc[p].pc = "done" /\ CredentialCalls \cap proc[p].calls # {}
               /\ proc[p].calls \cap RemoteCalls = {})
              => /\ proc[p].result.status = "error"
                 /\ proc[p].result.err \in
                       {"failed to reconcile s3 end-user credentials",
                        "failed to reconcile aws provider credentials"}

C12_Witness ==
    \E p \in Creates :
        /\ proc[p].pc = "done"
        /\ proc[p].result.err = "failed to reconcile aws provider credentials"
        /\ "ReoncileBucketOwnerCredentials" \in proc[p].calls
        /\ proc[p].calls \cap RemoteCalls = {}

\* C13 as stated: for every provider and strategy name s, SupportsStrategy(s)
\* is true exactly when s is the name GetName() returns.
C13_SupportsOnlyOwnName ==
    lookup.fn = "SupportsStrategy" =>
        (lookup.output <=> lookup.input[2] = GetName(lookup.input[1]))

\* C14 as stated: GetStrategyMappingForDeploymentType returns an error or a
\* mapping whose four fields are all non-empty.
C14_MappingCompleteOrError ==
    lookup.fn = "GetStrategyMappingForDeploymentType" =>
        \/ lookup.output.err # ""
        \/ /\ lookup.output.dsm.BlobStorage # ""
           /\ lookup.output.dsm.SMTPCredentials # ""
           /\ lookup.output.dsm.Redis # ""
           /\ lookup.output.dsm.Postgres # ""

\* the seeded defaults as a DeploymentStrategyMapping
SeededDefaults(t) ==
    IF t = "managed"
    THEN [BlobStorage |-> "aws", SMTPCredentials |-> "aws", Redis |-> "aws", Postgres |-> "aws"]
    ELSE [BlobStorage |-> "aws", SMTPCredentials |-> "aws",
          Redis |-> "openshift", Postgres |-> "openshift"]

\* C15 as stated: when the Strategy Store has no entry for the deployment type
\* (there is no config map, or the config map has no such key),
\* GetStrategyMappingForDeploymentType returns the seeded defaults without error.
C15_DefaultsWhenNoEntry ==
    lookup.fn = "GetStrategyMappingForDeploymentType" =>
        LET store == lookup.input[1]
            t == lookup.input[2]
        IN (store.state = "absent" \/ (store.state = "present" /\ t \notin DOMAIN store.Data))
              => /\ lookup.output.err = ""
                 /\ lookup.output.dsm = SeededDefaults(t)

\* C15 amended: when there is no config map at all,
\* GetStrategyMappingForDeploymentType returns the seeded defaults without error.
C15_DefaultsWhenNoConfigMap ==
    lookup.fn = "GetStrategyMappingForDeploymentType" =>
        (lookup.input[1].state = "absent"
            => /\ lookup.output.err = ""
               /\ lookup.output.dsm = SeededDefaults(lookup.input[2]))

C15_Witness ==
    /\ lookup.fn = "GetStrategyMappingForDeploymentType"
    /\ lookup.input = <<NoConfigMap, "workshop">>
    /\ lookup.output.err = ""
    /\ lookup.output.dsm.SMTPCredentials = "aws"
    /\ lookup.output.dsm.Postgres = "openshift"

\* C16: in every invocation that resolved its configuration, the resolved
\* region is the default constant when the strategy's region is the empty
\* string, and the strategy's region itself otherwise.
C16_RegionResolution ==
    \A p \in Procs :
        (Running(p) /\ "ReadBlobStorageStrategy" \in proc[p].calls)
            => /\ strategy.Region = "" => proc[p].region = DefaultRegion
               /\ strategy.Region # "" => proc[p].region = strategy.Region

C16_Witness ==
    \E p \in Procs :
        /\ Running(p)
        /\ "ReadBlobStorageStrategy" \in proc[p].calls
        /\ strategy.Region = ""
        /\ proc[p].region = DefaultRegion

\* C17 as stated: after CreatePostgres returns success for a request without a
\* deletion timestamp, a finalizer marker has been added to the request and the
\* request has been updated.
C17_CreatePostgresAddsFinalizer ==
    (/\ lookup.fn = "CreatePostgres"
     /\ lookup.output.err = ""
     /\ ~lookup.input[1].deletionTimestamp)
        => /\ lookup.output.ps.finalizers \ lookup.input[1].finalizers # {}
           /\ lookup.output.updates > 0

\* the bucket name the strategy payload and the request determine
TargetBucket ==
    IF strategy.Bucket = NoBucket THEN Namespace \o "-" \o Name ELSE strategy.Bucket

\* C18: every invocation of CreateStorage and DeleteStorage that resolved its
\* configuration targets the bucket named by the strategy payload, or
\* "{namespace}-{name}" when the payload names none; no other bucket is ever
\* created or deleted.
C18_SameBucketName ==
    /\ \A p \in Procs :
          /\ proc[p].bucket # NoBucket => proc[p].bucket = TargetBucket
          /\ (Running(p) /\ "ReadBlobStorageStrategy" \in proc[p].calls)
                => proc[p].bucket = TargetBucket
          /\ proc[p].calls \cap {"ListBuckets", "CreateBucket", "DeleteBucket", "HeadBucket"} # {}
                => proc[p].bucket = TargetBucket
    /\ \A b \in BucketNames \ {TargetBucket} :
          buckets[b] = IF b = ForeignBucket THEN "present" ELSE "absent"

C18_Witness ==
    \E p \in Creates, q \in Deletes :
        /\ strategy.Bucket = CustomBucket
        /\ "CreateBucket" \in proc[p].calls
        /\ proc[p].result.status = "ok"
        /\ "DeleteBucket" \in proc[q].calls
        /\ proc[q].bucket = CustomBucket
        /\ buckets[CustomBucket] = "deleting"

\* C19 as stated: when a DeleteStorage run by the only worker returns an error,
\* the finalizers of the request object it was handed are those of the
\* persisted request.
C19_ErrorLeavesFinalizers ==
    \A p \in Deletes :
        (proc[p].pc = "done" /\ proc[p].result.status = "error")
            => proc[p].bs.finalizers = persisted.finalizers

====
